---- MODULE Spec2Model ----
(***************************************************************************)
(* ToonVocab, Article Word Picker (src/App.tsx, ArticlePickerView).        *)
(*                                                                         *)
(* Strings are sequences of one-character strings.  Token positions are    *)
(* the 0-based array indices of the source; the token with index i is      *)
(* tokens[i + 1] of the TLA+ sequence.  A phrase (a JavaScript array,      *)
(* compared by reference in the source) is identified by its 1-based index *)
(* in the phrases list, 0 standing for null.  selectedIndices, a           *)
(* JavaScript Set, is the sequence of its elements in insertion order,     *)
(* which is the order in which Set.forEach visits them.                    *)
(*                                                                         *)
(* The state is that of the picker (article text, mode, tokens, selection  *)
(* and phrases), the definition cache (wordMeanings) and the dictionary    *)
(* requests in flight (pending).  An event handler, the render it causes   *)
(* and the floating panel's lookup effect of that render are one step; a   *)
(* request coming back is a step of its own.  panel is the state of the    *)
(* FloatingMeaningPanel the picking view mounts: its position, its drag    *)
(* state and its minimized flag; while the view is in input mode, when no  *)
(* panel is mounted, it holds the values a panel is mounted with.          *)
(* A handler is an operator from the state it reads to the state it sets;  *)
(* the properties of a handler are stated of that operator on every        *)
(* position it can be given, in every reachable state.                     *)
(***************************************************************************)
EXTENDS Integers, Sequences, FiniteSets, TLC

VARIABLES articleText, mode, tokens, selectedIndices, phrases, wordMeanings,
          pending, panel, event

vars == <<articleText, mode, tokens, selectedIndices, phrases, wordMeanings,
          pending, panel, event>>

(***************************************************************************)
(* Bounds of the model.                                                    *)
(***************************************************************************)
\* how many of the Articles below the user may paste
NumArticles == 2

\* how many of the Articles below, from the second on, the user may paste
\* while the dictionary service answers
NumShort == 2

\* how many of the Replies below the dictionary service may give
NumReplies == 5

\* how many requests for one word may be in flight at once
MaxPending == 1

\* the longest text pasted when every text over Alphabet is tried
MaxLen == 4

\* the pointer is followed over MaxCoord pixels to the right of and below
\* the place where the panel is mounted
MaxCoord == 1

\* the panel is gripped at most MaxGrip pixels from its top left corner
MaxGrip == 1

(***************************************************************************)
(* Characters and strings.                                                 *)
(***************************************************************************)
\* the characters of the model, in ascending order of their code unit
Chars == <<"\n", " ", "'", "-", ".", "1", "2", "A", "B", "a", "b", "c", "d">>

Code(c) == CHOOSE i \in 1..Len(Chars) : Chars[i] = c

\* [a-zA-Z]
IsLetter(c) == c \in {"A", "B", "a", "b", "c", "d"}

\* \s
IsSpace(c) == c \in {"\n", " "}

\* [.,!?;:'"()\[\]{}...\-]
IsPunct(c) == c \in {"'", "-", "."}

\* String.prototype.toLowerCase, one character
ToLower(c) == CASE c = "A" -> "a" [] c = "B" -> "b" [] OTHER -> c

Range(s) == {s[i] : i \in 1..Len(s)}

\* the comparison of Array.prototype.sort without a comparator: by code units
StrLess(s, t) ==
  \E k \in 1..(Len(t)) :
    /\ \A j \in 1..(k - 1) : j <= Len(s) /\ s[j] = t[j]
    /\ \/ Len(s) = k - 1
       \/ Len(s) >= k /\ Code(s[k]) < Code(t[k])

\* a test for the empty text that does not trim
TextIsEmpty(text) == Len(text) = 0

\* String.prototype.trim() === ''
TrimIsEmpty(text) == \A i \in 1..Len(text) : IsSpace(text[i])

\* the texts the user may paste into the textarea
Articles == <<
  <<"b", " ", "a", "b", ".", " ", "A", "b", "2", " ", "1", "2", "\n",
    "b", " ", "a", "b">>,
  <<" ", "\n">>,
  <<"A", "b", " ", "b", " ", "a", "b">>,
  <<"B", ".">> >>

\* the characters of the pasted texts when every text is tried: a newline, a
\* space, a punctuation mark, a digit and a letter
Alphabet == {"\n", " ", ".", "1", "a"}

\* the texts over Alphabet of at most n characters
RECURSIVE Texts(_)
Texts(n) ==
  IF n = 0 THEN {<<>>}
  ELSE LET shorter == Texts(n - 1)
       IN  shorter \cup {Append(t, c) : t \in {s \in shorter : Len(s) = n - 1},
                                        c \in Alphabet}

(***************************************************************************)
(* tokenize                                                                *)
(***************************************************************************)
\* the end (exclusive) of the maximal run of \s characters from i
RECURSIVE SpaceRunEnd(_, _)
SpaceRunEnd(text, i) ==
  IF i <= Len(text) /\ IsSpace(text[i]) THEN SpaceRunEnd(text, i + 1) ELSE i

\* the end (exclusive) of the maximal run of punctuation characters from i
RECURSIVE PunctRunEnd(_, _)
PunctRunEnd(text, i) ==
  IF i <= Len(text) /\ IsPunct(text[i]) THEN PunctRunEnd(text, i + 1) ELSE i

\* the end of the separator matched at i by (\n|\s+|[punct]+), i if none
SepEnd(text, i) ==
  IF text[i] = "\n" THEN i + 1
  ELSE IF IsSpace(text[i]) THEN SpaceRunEnd(text, i)
  ELSE IF IsPunct(text[i]) THEN PunctRunEnd(text, i)
  ELSE i

\* text.split(/(sep)/g): the pieces between separators and the separators
RECURSIVE SplitFrom(_, _, _)
SplitFrom(text, i, cur) ==
  IF i > Len(text) THEN <<cur>>
  ELSE IF SepEnd(text, i) > i
       THEN <<cur, SubSeq(text, i, SepEnd(text, i) - 1)>>
              \o SplitFrom(text, SepEnd(text, i), <<>>)
       ELSE SplitFrom(text, i + 1, Append(cur, text[i]))

NonEmpty(s) == s # <<>>

\* a filter that also drops the pieces made of white space only
RawTokensNoBlanks(text) ==
  SelectSeq(SplitFrom(text, 1, <<>>), LAMBDA s : ~TrimIsEmpty(s))

\* .filter(Boolean)
RawTokens(text) == SelectSeq(SplitFrom(text, 1, <<>>), NonEmpty)

\* a tokenizer that takes a token with a digit for a word as well
tokenizeDigitsAreWords(text) ==
  [k \in 1..Len(RawTokens(text)) |->
     [text      |-> RawTokens(text)[k],
      index     |-> k - 1,
      isWord    |-> \E j \in 1..Len(RawTokens(text)[k]) :
                      RawTokens(text)[k][j] \in {"1", "2", "a"},
      isNewline |-> RawTokens(text)[k] = <<"\n">>]]

tokenize(text) ==
  [k \in 1..Len(RawTokens(text)) |->
     [text      |-> RawTokens(text)[k],
      index     |-> k - 1,
      isWord    |-> \E j \in 1..Len(RawTokens(text)[k]) : IsLetter(RawTokens(text)[k][j]),
      isNewline |-> RawTokens(text)[k] = <<"\n">>]]

(***************************************************************************)
(* normalizeWord                                                           *)
(***************************************************************************)
LowerAll(word) == [j \in 1..Len(word) |-> ToLower(word[j])]

normalizeWord(word) == SelectSeq(LowerAll(word), IsLetter)

(***************************************************************************)
(* Phrase set                                                              *)
(***************************************************************************)
Includes(arr, x) == \E j \in 1..Len(arr) : arr[j] = x

\* phrases.find(phrase => phrase.includes(index)) || null; 0 is null
getPhraseForIndex(phr, index) ==
  IF \E k \in 1..Len(phr) : Includes(phr[k], index)
  THEN CHOOSE k \in 1..Len(phr) :
         /\ Includes(phr[k], index)
         /\ \A j \in 1..(k - 1) : ~Includes(phr[j], index)
  ELSE 0

\* arr.sort((a, b) => a - b), by insertion
RECURSIVE InsertNum(_, _)
InsertNum(sorted, x) ==
  IF sorted = <<>> THEN <<x>>
  ELSE IF x < Head(sorted) THEN <<x>> \o sorted
  ELSE <<Head(sorted)>> \o InsertNum(Tail(sorted), x)

RECURSIVE SortNum(_)
SortNum(arr) ==
  IF arr = <<>> THEN <<>>
  ELSE InsertNum(SortNum(SubSeq(arr, 1, Len(arr) - 1)), arr[Len(arr)])

\* phrases.filter(p => p !== phrase1 && p !== phrase2), by array identity
RECURSIVE WithoutPhrases(_, _, _, _)
WithoutPhrases(phr, k, p1, p2) ==
  IF k > Len(phr) THEN <<>>
  ELSE (IF k # p1 /\ k # p2 THEN <<phr[k]>> ELSE <<>>)
         \o WithoutPhrases(phr, k + 1, p1, p2)

\* the newPhrase of handleMerge
MergedPhrase(phr, index1, index2) ==
  LET p1 == getPhraseForIndex(phr, index1)
      p2 == getPhraseForIndex(phr, index2)
  IN  IF p1 # 0 /\ p2 # 0 THEN SortNum(phr[p1] \o phr[p2])
      ELSE IF p1 # 0 THEN SortNum(Append(phr[p1], index2))
      ELSE IF p2 # 0 THEN SortNum(<<index1>> \o phr[p2])
      ELSE SortNum(<<index1, index2>>)

\* handleMerge with the filter testing p !== phrase1 alone
handleMergeKeepsSecond(phr, index1, index2) ==
  Append(WithoutPhrases(phr, 1, getPhraseForIndex(phr, index1),
                        getPhraseForIndex(phr, index1)),
         MergedPhrase(phr, index1, index2))

\* handleMerge with the lone position left out when one phrase is extended
handleMergeDropsLone(phr, index1, index2) ==
  LET p1 == getPhraseForIndex(phr, index1)
      p2 == getPhraseForIndex(phr, index2)
  IN  Append(WithoutPhrases(phr, 1, p1, p2),
             IF p1 # 0 /\ p2 = 0 THEN phr[p1]
             ELSE IF p1 = 0 /\ p2 # 0 THEN phr[p2]
             ELSE MergedPhrase(phr, index1, index2))

\* handleMerge putting the merged phrase where the first phrase it replaces was
handleMergeInPlace(phr, index1, index2) ==
  LET p1 == getPhraseForIndex(phr, index1)
      p2 == getPhraseForIndex(phr, index2)
      at == IF p1 # 0 /\ (p2 = 0 \/ p1 <= p2) THEN p1 ELSE p2
  IN  IF at = 0 THEN Append(phr, MergedPhrase(phr, index1, index2))
      ELSE WithoutPhrases(SubSeq(phr, 1, at - 1), 1, p1, p2)
             \o <<MergedPhrase(phr, index1, index2)>>
             \o WithoutPhrases(phr, at + 1, p1, p2)

\* the argument of setPhrases in handleMerge
handleMerge(phr, index1, index2) ==
  Append(WithoutPhrases(phr, 1, getPhraseForIndex(phr, index1),
                        getPhraseForIndex(phr, index2)),
         MergedPhrase(phr, index1, index2))

(***************************************************************************)
(* Selection state                                                         *)
(***************************************************************************)
InRange(toks, i) == i >= 0 /\ i < Len(toks)

\* tokens[i], for i in range
TokenAt(toks, i) == toks[i + 1]

\* Set.prototype.has
Has(sel, x) == Includes(sel, x)

\* Set.prototype.delete of every element of arr
RECURSIVE DeleteAll(_, _)
DeleteAll(sel, arr) ==
  IF sel = <<>> THEN <<>>
  ELSE (IF Includes(arr, Head(sel)) THEN <<>> ELSE <<Head(sel)>>)
         \o DeleteAll(Tail(sel), arr)

\* Set.prototype.add
Add(sel, x) == IF Has(sel, x) THEN sel ELSE Append(sel, x)

\* handleWordClick deleting the clicked member alone when it dissolves a phrase
handleWordClickPartial(toks, sel, phr, tokenIndex) ==
  IF ~InRange(toks, tokenIndex) \/ ~TokenAt(toks, tokenIndex).isWord
  THEN [sel |-> sel, phr |-> phr]
  ELSE LET phrase == getPhraseForIndex(phr, tokenIndex)
       IN  IF phrase # 0
           THEN [sel |-> DeleteAll(sel, <<tokenIndex>>),
                 phr |-> WithoutPhrases(phr, 1, phrase, phrase)]
           ELSE IF Has(sel, tokenIndex)
           THEN [sel |-> DeleteAll(sel, <<tokenIndex>>), phr |-> phr]
           ELSE [sel |-> Add(sel, tokenIndex), phr |-> phr]

\* handleWordClick without the branch that deselects a loose word
handleWordClickNeverRemoves(toks, sel, phr, tokenIndex) ==
  IF ~InRange(toks, tokenIndex) \/ ~TokenAt(toks, tokenIndex).isWord
  THEN [sel |-> sel, phr |-> phr]
  ELSE LET phrase == getPhraseForIndex(phr, tokenIndex)
       IN  IF phrase # 0
           THEN [sel |-> DeleteAll(sel, phr[phrase]),
                 phr |-> WithoutPhrases(phr, 1, phrase, phrase)]
           ELSE [sel |-> Add(sel, tokenIndex), phr |-> phr]

\* handleWordClick returning early on a missing token only, not on !token.isWord
handleWordClickNoWordGuard(toks, sel, phr, tokenIndex) ==
  IF ~InRange(toks, tokenIndex)
  THEN [sel |-> sel, phr |-> phr]
  ELSE LET phrase == getPhraseForIndex(phr, tokenIndex)
       IN  IF phrase # 0
           THEN [sel |-> DeleteAll(sel, phr[phrase]),
                 phr |-> WithoutPhrases(phr, 1, phrase, phrase)]
           ELSE IF Has(sel, tokenIndex)
           THEN [sel |-> DeleteAll(sel, <<tokenIndex>>), phr |-> phr]
           ELSE [sel |-> Add(sel, tokenIndex), phr |-> phr]

\* handleWordClick deselecting the clicked member and keeping its phrase
handleWordClickKeepsPhrase(toks, sel, phr, tokenIndex) ==
  IF ~InRange(toks, tokenIndex) \/ ~TokenAt(toks, tokenIndex).isWord
  THEN [sel |-> sel, phr |-> phr]
  ELSE IF Has(sel, tokenIndex)
  THEN [sel |-> DeleteAll(sel, <<tokenIndex>>), phr |-> phr]
  ELSE [sel |-> Add(sel, tokenIndex), phr |-> phr]

\* handleWordClick: the selection and the phrases it leaves
handleWordClick(toks, sel, phr, tokenIndex) ==
  IF ~InRange(toks, tokenIndex) \/ ~TokenAt(toks, tokenIndex).isWord
  THEN [sel |-> sel, phr |-> phr]
  ELSE LET phrase == getPhraseForIndex(phr, tokenIndex)
       IN  IF phrase # 0
           THEN [sel |-> DeleteAll(sel, phr[phrase]),
                 phr |-> WithoutPhrases(phr, 1, phrase, phrase)]
           ELSE IF Has(sel, tokenIndex)
           THEN [sel |-> DeleteAll(sel, <<tokenIndex>>), phr |-> phr]
           ELSE [sel |-> Add(sel, tokenIndex), phr |-> phr]

(***************************************************************************)
(* Adjacency scanner                                                       *)
(***************************************************************************)
IsWordToken(t) == t.isWord

\* tokens.filter(t => t.isWord)
WordTokens(toks) == SelectSeq(toks, IsWordToken)

\* the test of findAdjacentPairs without its same-phrase exclusion
IsCandidateIgnoresPhrase(sel, phr, current, next) ==
  Has(sel, current) /\ Has(sel, next)

\* the test of the loop body of findAdjacentPairs on current and next
IsCandidate(sel, phr, current, next) ==
  /\ Has(sel, current) /\ Has(sel, next)
  /\ \/ getPhraseForIndex(phr, current) = 0
     \/ getPhraseForIndex(phr, next) = 0
     \/ getPhraseForIndex(phr, current) # getPhraseForIndex(phr, next)

RECURSIVE PairsFrom(_, _, _, _)
PairsFrom(words, sel, phr, i) ==
  IF i > Len(words) - 1 THEN <<>>
  ELSE (IF IsCandidate(sel, phr, words[i].index, words[i + 1].index)
        THEN << <<words[i].index, words[i + 1].index>> >>
        ELSE <<>>)
         \o PairsFrom(words, sel, phr, i + 1)

\* a scanner that pairs each selected word with the next selected word,
\* whatever unselected words lie between them
findAdjacentPairsAmongSelected(toks, sel, phr) ==
  PairsFrom(SelectSeq(WordTokens(toks), LAMBDA t : Has(sel, t.index)),
            sel, phr, 1)

findAdjacentPairs(toks, sel, phr) == PairsFrom(WordTokens(toks), sel, phr, 1)

(***************************************************************************)
(* Export encoder and the panel's lists                                    *)
(***************************************************************************)
\* singleWords pushed for every selected index, without the test on its phrase
RECURSIVE SingleWordsAll(_, _, _)
SingleWordsAll(toks, sel, phr) ==
  IF sel = <<>> THEN <<>>
  ELSE <<normalizeWord(TokenAt(toks, Head(sel)).text)>>
         \o SingleWordsAll(toks, Tail(sel), phr)

\* the singleWords of handleExportJson, the words of getSelectedWords
RECURSIVE SingleWords(_, _, _)
SingleWords(toks, sel, phr) ==
  IF sel = <<>> THEN <<>>
  ELSE (IF getPhraseForIndex(phr, Head(sel)) = 0
        THEN <<normalizeWord(TokenAt(toks, Head(sel)).text)>>
        ELSE <<>>)
         \o SingleWords(toks, Tail(sel), phr)

\* [...new Set(arr)]: the first occurrence of every element
RECURSIVE Dedupe(_)
Dedupe(arr) ==
  IF arr = <<>> THEN <<>>
  ELSE LET init == Dedupe(SubSeq(arr, 1, Len(arr) - 1))
       IN  IF Includes(init, arr[Len(arr)]) THEN init
           ELSE Append(init, arr[Len(arr)])

\* arr.sort(), by insertion
RECURSIVE InsertStr(_, _)
InsertStr(sorted, x) ==
  IF sorted = <<>> THEN <<x>>
  ELSE IF StrLess(x, Head(sorted)) THEN <<x>> \o sorted
  ELSE <<Head(sorted)>> \o InsertStr(Tail(sorted), x)

RECURSIVE SortStr(_)
SortStr(arr) ==
  IF arr = <<>> THEN <<>>
  ELSE InsertStr(SortStr(SubSeq(arr, 1, Len(arr) - 1)), arr[Len(arr)])

\* arr.join(' ')
RECURSIVE JoinSpace(_)
JoinSpace(arr) ==
  IF arr = <<>> THEN <<>>
  ELSE IF Len(arr) = 1 THEN arr[1]
  ELSE arr[1] \o <<" ">> \o JoinSpace(Tail(arr))

\* tokens[i]?.text || ''
TextOrEmpty(toks, i) == IF InRange(toks, i) THEN TokenAt(toks, i).text ELSE <<>>

getPhraseText(toks, phraseIndices) ==
  JoinSpace([j \in 1..Len(phraseIndices) |-> TextOrEmpty(toks, phraseIndices[j])])

getPhraseTexts(toks, phr) == [k \in 1..Len(phr) |-> getPhraseText(toks, phr[k])]

getSelectedWords(toks, sel, phr) == Dedupe(SingleWords(toks, sel, phr))

\* the words of exportData without the sort()
ExportWordsUnsorted(toks, sel, phr) == Dedupe(SingleWords(toks, sel, phr))

\* the words of exportData
ExportWords(toks, sel, phr) == SortStr(Dedupe(SingleWords(toks, sel, phr)))

\* the phrases of exportData
ExportPhrases(toks, phr) == getPhraseTexts(toks, phr)

\* exportData without its timestamp
exportData(toks, sel, phr) ==
  [words |-> ExportWords(toks, sel, phr), phrases |-> ExportPhrases(toks, phr)]

(***************************************************************************)
(* The definition cache.  wordMeanings, a JavaScript Map from normalized   *)
(* words to WordMeaning records, is a function on the set of its keys.  An *)
(* optional field that is absent holds NoValue.  The dictionary service is *)
(* the list Replies of what a request can come back with; pending is the   *)
(* bag of the requests sent and not yet answered, a function from their    *)
(* normalized words to how many of them are in flight.                     *)
(***************************************************************************)
NoValue == "undefined"

EmptyMap == [k \in {} |-> NoValue]

\* a has() that finds nothing
MapHasNever(m, k) == FALSE

MapHas(m, k) == k \in DOMAIN m

\* new Map(prev).set(k, v)
MapSet(prev, k, v) ==
  [x \in (DOMAIN prev) \cup {k} |-> IF x = k THEN v ELSE prev[x]]

\* the record set before the request is sent; word is the normalized word
LoadingRecord(word) ==
  [word |-> word, phonetic |-> NoValue, definitions |-> <<>>,
   loading |-> TRUE, error |-> NoValue]

\* the record set in the catch block
ErrorRecord(word) ==
  [word |-> word, phonetic |-> NoValue, definitions |-> <<>>,
   loading |-> FALSE, error |-> "No definition found"]

\* the record set after the response was read
FoundRecord(word, phonetic, definitions) ==
  [word |-> word, phonetic |-> phonetic, definitions |-> definitions,
   loading |-> FALSE, error |-> NoValue]

\* s.slice(0, n)
Slice(s, n) == SubSeq(s, 1, IF Len(s) < n THEN Len(s) ELSE n)

\* a meaning group of a dictionary entry; a definition without text is ""
Meaning(definitions) == [definitions |-> definitions]

\* a dictionary entry, with the fields fetchMeaning reads
Entry(phonetic, phonetics, meanings) ==
  [phonetic |-> phonetic, phonetics |-> phonetics, meanings |-> meanings]

\* what a request comes back with: fetch resolved (net), response.ok (ok),
\* and the body: not JSON ("invalid"), the JSON null ("null"), a JSON object
\* that is no array and has no property 0 ("object"), or a JSON array
\* ("array") of entries
Reply(net, ok, body, data) == [net |-> net, ok |-> ok, body |-> body, data |-> data]

Replies ==
  << Reply(TRUE, TRUE, "array",
           << Entry(NoValue, <<"p1">>,
                    << Meaning(<<"d1", "", "d3">>), Meaning(<<"d4", "d5">>),
                       Meaning(<<"d6">>) >>) >>),
     Reply(TRUE, FALSE, "array", <<>>),
     Reply(FALSE, FALSE, "invalid", <<>>),
     Reply(TRUE, TRUE, "invalid", <<>>),
     Reply(TRUE, TRUE, "object", <<>>),
     Reply(TRUE, TRUE, "null", <<>>) >>

\* the request ends in the catch block: fetch rejected, the status is not
\* ok, response.json() rejected, or data[0] of null threw
Throws(reply) ==
  \/ ~reply.net
  \/ ~reply.ok
  \/ reply.body = "invalid"
  \/ reply.body = "null"

\* data[0]?.meanings || []; data is empty when there is no data[0]
MeaningsOf(data) == IF Len(data) = 0 THEN <<>> ELSE data[1].meanings

\* data[0]?.phonetic || data[0]?.phonetics?.[0]?.text
PhoneticOf(data) ==
  IF Len(data) = 0 THEN NoValue
  ELSE IF data[1].phonetic # NoValue /\ data[1].phonetic # "" THEN data[1].phonetic
  ELSE IF Len(data[1].phonetics) = 0 THEN NoValue
  ELSE data[1].phonetics[1]

\* the first 2 of the non-empty definitions of a meaning group
PushedFirstNonEmpty(defs) == Slice(SelectSeq(defs, LAMBDA d : d # ""), 2)

\* m.definitions?.slice(0, 2).forEach(d => if (d.definition) push)
Pushed(defs) == SelectSeq(Slice(defs, 2), LAMBDA d : d # "")

RECURSIVE DefinitionsOf(_)
\* the definitions array after meanings.forEach
DefinitionsOf(meanings) ==
  IF Len(meanings) = 0 THEN <<>>
  ELSE Pushed(meanings[1].definitions) \o DefinitionsOf(Tail(meanings))

\* the record fetchMeaning sets when the request for the normalized word
\* has come back
\* the record of a reply with every definition pushed, not the first 3
ResultRecordUntruncated(word, reply) ==
  IF Throws(reply) THEN ErrorRecord(word)
  ELSE FoundRecord(word, PhoneticOf(reply.data),
                   DefinitionsOf(MeaningsOf(reply.data)))

ResultRecord(word, reply) ==
  IF Throws(reply) THEN ErrorRecord(word)
  ELSE FoundRecord(word, PhoneticOf(reply.data),
                   Slice(DefinitionsOf(MeaningsOf(reply.data)), 3))

\* a render's fetchMeaning: seen is the wordMeanings of that render, upd the
\* map with the updates queued so far and the requests sent so far
fetchMeaning(seen, upd, word) ==
  LET normalized == normalizeWord(word)
  IN  IF normalized = <<>> \/ MapHas(seen, normalized)
      THEN upd
      ELSE [wm  |-> MapSet(upd.wm, normalized, LoadingRecord(normalized)),
            req |-> Append(upd.req, normalized)]

RECURSIVE FetchEach(_, _, _)
\* selectedItems.forEach(word => { if (!meanings.has(word)) onFetchMeaning(word) })
FetchEach(selectedItems, meanings, upd) ==
  IF Len(selectedItems) = 0 THEN upd
  ELSE FetchEach(Tail(selectedItems), meanings,
                 IF MapHas(meanings, Head(selectedItems)) THEN upd
                 ELSE fetchMeaning(meanings, upd, Head(selectedItems)))

\* the panel's effect in a render with the map wm
PanelEffect(toks, sel, phr, wm) ==
  FetchEach(getSelectedWords(toks, sel, phr), wm, [wm |-> wm, req |-> <<>>])

\* the render after a state change and the render its effect's updates
\* cause: the map and the requests sent when the component has settled
Rendered(toks, sel, phr, wm) ==
  LET first  == PanelEffect(toks, sel, phr, wm)
      second == PanelEffect(toks, sel, phr, first.wm)
  IN  [wm |-> second.wm, req |-> first.req \o second.req]

\* how many requests for k are in flight
InFlight(pend, k) == IF k \in DOMAIN pend THEN pend[k] ELSE 0

RECURSIVE Sent(_, _)
\* the bag after the requests req were sent
Sent(pend, req) ==
  IF Len(req) = 0 THEN pend
  ELSE Sent([k \in (DOMAIN pend) \cup {Head(req)} |->
               InFlight(pend, k) + (IF k = Head(req) THEN 1 ELSE 0)],
            Tail(req))

\* the bag after a request for k came back
Answered(pend, k) ==
  [x \in {y \in DOMAIN pend : y # k \/ pend[y] > 1} |->
     IF x = k THEN pend[x] - 1 ELSE pend[x]]

\* no word has more than MaxPending requests in flight
WithinBound(pend) == \A k \in DOMAIN pend : pend[k] <= MaxPending

(***************************************************************************)
(* FloatingMeaningPanel: position, drag and minimize.  A point and an      *)
(* offset are records of an x and a y.                                     *)
(***************************************************************************)
\* the useState values of a panel that has just been mounted
PanelMounted ==
  [position    |-> [x |-> 20, y |-> 20],
   isDragging  |-> FALSE,
   dragOffset  |-> [x |-> 0, y |-> 0],
   isMinimized |-> FALSE]

Minus(p, q) == [x |-> p.x - q.x, y |-> p.y - q.y]

\* a mouse down handler that does not look where the press landed
handleMouseDownAnywhere(p, inContent, pointer) ==
  [p EXCEPT !.isDragging = TRUE, !.dragOffset = Minus(pointer, p.position)]

\* onMouseDown of the panel, for a press at pointer; inContent: the target
\* is inside the element of class panel-content
handleMouseDown(p, inContent, pointer) ==
  IF inContent THEN p
  ELSE [p EXCEPT !.isDragging = TRUE, !.dragOffset = Minus(pointer, p.position)]

\* the document's mousemove listener, registered while isDragging
handleMouseMove(p, pointer) ==
  IF ~p.isDragging THEN p
  ELSE [p EXCEPT !.position = Minus(pointer, p.dragOffset)]

\* the document's mouseup listener, registered while isDragging
handleMouseUp(p) == [p EXCEPT !.isDragging = FALSE]

\* a minimize button that also puts the panel back where it was mounted
ToggleMinimizedRecentres(p) ==
  [p EXCEPT !.isMinimized = ~p.isMinimized, !.position = PanelMounted.position]

\* the minimize button: setIsMinimized(!isMinimized)
ToggleMinimized(p) == [p EXCEPT !.isMinimized = ~p.isMinimized]

\* the places of the pointer
Pointers ==
  [x : PanelMounted.position.x..(PanelMounted.position.x + MaxCoord),
   y : PanelMounted.position.y..(PanelMounted.position.y + MaxCoord)]

\* the pointer is over the panel's element, whose top left corner is at the
\* panel's position
OnPanel(p, pointer) ==
  /\ pointer.x - p.position.x \in 0..MaxGrip
  /\ pointer.y - p.position.y \in 0..MaxGrip

(***************************************************************************)
(* The component: state after construction, and one action per handler.    *)
(* event is the event handled last: its kind, and the token index (a) and  *)
(* the phrase found for it (b) of a word click, the pair (a, b) of a       *)
(* merge, the reply (a, an index of Replies) and the normalized word of a  *)
(* request that came back, or the document of an export.                   *)
(***************************************************************************)
NoDoc == [words |-> <<>>, phrases |-> <<>>]

Ev(op, a, b) == [op |-> op, a |-> a, b |-> b, word |-> <<>>, doc |-> NoDoc]

\* the event of the request for word coming back with Replies[n]
EvReply(n, word) == [Ev("reply", n, -1) EXCEPT !.word = word]

\* the event of an export that emitted doc
EvExport(doc) == [Ev("export", -1, -1) EXCEPT !.doc = doc]

Init ==
  /\ articleText = <<>>
  /\ mode = "input"
  /\ tokens = <<>>
  /\ selectedIndices = <<>>
  /\ phrases = <<>>
  /\ wordMeanings = EmptyMap
  /\ pending = EmptyMap
  /\ panel = PanelMounted
  /\ event = Ev("mount", -1, -1)

\* the textarea's onChange
SetArticleText(n) ==
  /\ mode = "input"
  /\ articleText' = Articles[n]
  /\ event' = Ev("type", n, -1)
  /\ UNCHANGED <<mode, tokens, selectedIndices, phrases, wordMeanings, pending,
                 panel>>

handleStartPicking ==
  /\ mode = "input"
  /\ event' = Ev("start", -1, -1)
  /\ IF TrimIsEmpty(articleText)
     THEN UNCHANGED <<mode, tokens, selectedIndices, phrases, wordMeanings,
                      panel>>
     ELSE /\ tokens' = tokenize(articleText)
          /\ selectedIndices' = <<>>
          /\ phrases' = <<>>
          /\ wordMeanings' = EmptyMap
          /\ mode' = "picking"
          /\ panel' = PanelMounted
  /\ UNCHANGED <<articleText, pending>>

\* the cache and the requests in flight once the render with the selection
\* sel, the phrases phr and the map wm has settled
\* a render whose effect looks nothing up
LookupsNone(sel, phr, wm) == UNCHANGED <<wordMeanings, pending>>

Lookups(sel, phr, wm) ==
  LET settled == Rendered(tokens, sel, phr, wm)
  IN  /\ wordMeanings' = settled.wm
      /\ pending' = Sent(pending, settled.req)
      /\ WithinBound(pending')

\* a click on the span of the word token i
WordClick(i) ==
  /\ mode = "picking"
  /\ InRange(tokens, i) /\ TokenAt(tokens, i).isWord
  /\ LET clicked == handleWordClick(tokens, selectedIndices, phrases, i)
     IN  /\ selectedIndices' = clicked.sel
         /\ phrases' = clicked.phr
         /\ Lookups(clicked.sel, clicked.phr, wordMeanings)
  /\ event' = Ev("click", i, getPhraseForIndex(phrases, i))
  /\ UNCHANGED <<articleText, mode, tokens, panel>>

\* adjacentPairs.find(([i1, i2]) => index > i1 && index < i2); 0 is undefined
ConnectorPair(pairs, index) ==
  IF \E k \in 1..Len(pairs) : index > pairs[k][1] /\ index < pairs[k][2]
  THEN CHOOSE k \in 1..Len(pairs) :
         /\ index > pairs[k][1] /\ index < pairs[k][2]
         /\ \A j \in 1..(k - 1) : ~(index > pairs[j][1] /\ index < pairs[j][2])
  ELSE 0

\* the token i is rendered with a merge button
HasConnector(toks, sel, phr, i) ==
  /\ InRange(toks, i)
  /\ ~TokenAt(toks, i).isNewline
  /\ ~TokenAt(toks, i).isWord
  /\ ConnectorPair(findAdjacentPairs(toks, sel, phr), i) # 0
  /\ Len(sel) > 0

\* a click on the merge button rendered over the token i
ConnectorClick(i) ==
  /\ mode = "picking"
  /\ HasConnector(tokens, selectedIndices, phrases, i)
  /\ LET pairs == findAdjacentPairs(tokens, selectedIndices, phrases)
         pair  == pairs[ConnectorPair(pairs, i)]
     IN  /\ phrases' = handleMerge(phrases, pair[1], pair[2])
         /\ event' = Ev("merge", pair[1], pair[2])
  /\ Lookups(selectedIndices, phrases', wordMeanings)
  /\ UNCHANGED <<articleText, mode, tokens, selectedIndices, panel>>

\* an export that lists only the words whose lookup has succeeded
ExportDocumentSettled(toks, sel, phr, wm) ==
  [words   |-> SelectSeq(ExportWords(toks, sel, phr),
                         LAMBDA w : /\ MapHas(wm, w)
                                    /\ ~wm[w].loading
                                    /\ wm[w].error = NoValue),
   phrases |-> ExportPhrases(toks, phr)]

\* the words and phrases of the document handleExportJson writes in a render
\* with the tokens, the selection, the phrases and the cache wm in scope
ExportDocument(toks, sel, phr, wm) == exportData(toks, sel, phr)

\* the Export JSON button is not disabled, in a render with the selection
\* sel and the cache wm: disabled={selectedIndices.size === 0}
ExportEnabled(sel, wm) == Len(sel) # 0

\* the Export JSON button, shown while picking
handleExportJson ==
  /\ mode = "picking"
  /\ ExportEnabled(selectedIndices, wordMeanings)
  /\ event' = EvExport(ExportDocument(tokens, selectedIndices, phrases, wordMeanings))
  /\ UNCHANGED <<articleText, mode, tokens, selectedIndices, phrases,
                 wordMeanings, pending, panel>>

\* a reset that keeps the cache
handleResetKeepsCache ==
  /\ mode = "picking"
  /\ mode' = "input"
  /\ tokens' = <<>>
  /\ selectedIndices' = <<>>
  /\ phrases' = <<>>
  /\ panel' = PanelMounted
  /\ event' = Ev("reset", -1, -1)
  /\ UNCHANGED <<articleText, wordMeanings, pending>>

handleReset ==
  /\ mode = "picking"
  /\ mode' = "input"
  /\ tokens' = <<>>
  /\ selectedIndices' = <<>>
  /\ phrases' = <<>>
  /\ wordMeanings' = EmptyMap
  /\ panel' = PanelMounted
  /\ event' = Ev("reset", -1, -1)
  /\ UNCHANGED <<articleText, pending>>

\* the update a request applies when it has come back, forgetting prev
SettleAlone(prev, normalized, reply) ==
  [x \in {normalized} |-> ResultRecord(normalized, reply)]

\* an update that leaves the map as it is when the request has failed
SettleIgnoresFailure(prev, normalized, reply) ==
  IF Throws(reply) THEN prev
  ELSE MapSet(prev, normalized, ResultRecord(normalized, reply))

\* the update a request applies when it has come back:
\* prev => new Map(prev).set(normalized, ...)
Settle(prev, normalized, reply) ==
  MapSet(prev, normalized, ResultRecord(normalized, reply))

\* the request for the normalized word comes back with Replies[n]; the
\* panel, mounted while picking, renders again
LookupDone(word, n) ==
  /\ InFlight(pending, word) > 0
  /\ LET wm      == Settle(wordMeanings, word, Replies[n])
         settled == Rendered(tokens, selectedIndices, phrases, wm)
     IN  IF mode = "picking"
         THEN /\ wordMeanings' = settled.wm
              /\ pending' = Sent(Answered(pending, word), settled.req)
         ELSE /\ wordMeanings' = wm
              /\ pending' = Answered(pending, word)
  /\ WithinBound(pending')
  /\ event' = EvReply(n, word)
  /\ UNCHANGED <<articleText, mode, tokens, selectedIndices, phrases, panel>>

(***************************************************************************)
(* FloatingMeaningPanel, the element ArticlePickerView renders while       *)
(* picking.                                                                *)
(***************************************************************************)
\* const allItems = [...selectedItems, ...phrases]
AllItems(selectedItems, phraseTexts) == selectedItems \o phraseTexts

\* a panel that returns null unless a single word is selected
PanelShownWordsOnly(toks, sel, phr) ==
  Len(getSelectedWords(toks, sel, phr)) # 0

\* the panel, given the props of a render with the selection sel and the
\* phrases phr, returns its element: if (allItems.length === 0) return null
PanelShown(toks, sel, phr) ==
  Len(AllItems(getSelectedWords(toks, sel, phr), getPhraseTexts(toks, phr))) # 0

\* the event of the mouse at pointer
EvPointer(op, pointer) == Ev(op, pointer.x, pointer.y)

\* a mouse press on the panel's element
PanelPress(inContent, pointer) ==
  /\ mode = "picking"
  /\ PanelShown(tokens, selectedIndices, phrases)
  /\ OnPanel(panel, pointer)
  /\ inContent => ~panel.isMinimized
  /\ panel' = handleMouseDown(panel, inContent, pointer)
  /\ event' = EvPointer(IF inContent THEN "pressContent" ELSE "press", pointer)
  /\ UNCHANGED <<articleText, mode, tokens, selectedIndices, phrases,
                 wordMeanings, pending>>

\* the mouse moves to pointer while a panel is mounted
PointerMove(pointer) ==
  /\ mode = "picking"
  /\ panel' = handleMouseMove(panel, pointer)
  /\ event' = EvPointer("move", pointer)
  /\ UNCHANGED <<articleText, mode, tokens, selectedIndices, phrases,
                 wordMeanings, pending>>

\* the mouse button is released while a panel is mounted
PointerUp ==
  /\ mode = "picking"
  /\ panel' = handleMouseUp(panel)
  /\ event' = Ev("up", -1, -1)
  /\ UNCHANGED <<articleText, mode, tokens, selectedIndices, phrases,
                 wordMeanings, pending>>

\* a click on the minimize button of the panel's header
MinimizeClick ==
  /\ mode = "picking"
  /\ PanelShown(tokens, selectedIndices, phrases)
  /\ panel' = ToggleMinimized(panel)
  /\ event' = Ev("minimize", -1, -1)
  /\ UNCHANGED <<articleText, mode, tokens, selectedIndices, phrases,
                 wordMeanings, pending>>

Next ==
  \/ \E n \in 1..NumArticles : SetArticleText(n)
  \/ handleStartPicking
  \/ \E i \in 0..(Len(tokens) - 1) : WordClick(i)
  \/ \E i \in 0..(Len(tokens) - 1) : ConnectorClick(i)
  \/ handleExportJson
  \/ handleReset

\* the picker while the dictionary service stays silent
Spec == Init /\ [][Next]_vars

NextSession ==
  \/ \E n \in 1..NumArticles : SetArticleText(n)
  \/ handleStartPicking
  \/ \E i \in 0..(Len(tokens) - 1) : WordClick(i)
  \/ \E i \in 0..(Len(tokens) - 1) : ConnectorClick(i)
  \/ handleExportJson

\* one session of the picker, never reset, while the service stays silent; it
\* reaches every selection and every phrase list that Spec reaches
SpecSession == Init /\ [][NextSession]_vars

\* the articles pasted while the service answers: the blank one and short ones
ShortArticles == 2..(1 + NumShort)

NextLookups ==
  \/ \E n \in ShortArticles : SetArticleText(n)
  \/ handleStartPicking
  \/ \E i \in 0..(Len(tokens) - 1) : WordClick(i)
  \/ \E i \in 0..(Len(tokens) - 1) : ConnectorClick(i)
  \/ handleExportJson
  \/ handleReset
  \/ \E word \in DOMAIN pending : \E n \in 1..NumReplies : LookupDone(word, n)

\* the picker and the dictionary service
SpecLookups == Init /\ [][NextLookups]_vars

\* the normalized words of the articles pasted while the service answers
ArticleKeys ==
  UNION {{normalizeWord(WordTokens(tokenize(Articles[n]))[k].text) :
            k \in 1..Len(WordTokens(tokenize(Articles[n])))} :
         n \in ShortArticles}

\* a request for the normalized word comes back: what a LookupDone step for
\* the word does to the requests in flight, and no other step of NextLookups
\* does; it can happen exactly when a request for the word is in flight
RequestReturns(word) ==
  /\ InFlight(pending, word) > 0
  /\ pending' = Answered(pending, word)

\* the picker and a dictionary service every request to which comes back:
\* the fetch of fetchMeaning settles, so its continuation runs
SpecLookupsFair ==
  SpecLookups /\ \A word \in ArticleKeys : WF_pending(RequestReturns(word))

\* the component once the user has typed or pasted some text over Alphabet
InitPasted ==
  /\ articleText \in Texts(MaxLen)
  /\ mode = "input"
  /\ tokens = <<>>
  /\ selectedIndices = <<>>
  /\ phrases = <<>>
  /\ wordMeanings = EmptyMap
  /\ pending = EmptyMap
  /\ panel = PanelMounted
  /\ event = Ev("mount", -1, -1)

NextTokens ==
  \/ handleStartPicking
  \/ \E i \in 0..(Len(tokens) - 1) : WordClick(i)
  \/ \E i \in 0..(Len(tokens) - 1) : ConnectorClick(i)

\* one session of the picker on every text of at most MaxLen characters,
\* while the service stays silent
SpecTokens == InitPasted /\ [][NextTokens]_vars

NextPanel ==
  \/ \E n \in ShortArticles : SetArticleText(n)
  \/ handleStartPicking
  \/ \E i \in 0..(Len(tokens) - 1) : WordClick(i)
  \/ \E inContent \in BOOLEAN : \E pointer \in Pointers :
       PanelPress(inContent, pointer)
  \/ \E pointer \in Pointers : PointerMove(pointer)
  \/ PointerUp
  \/ MinimizeClick

\* the floating panel in one session of the picker, with the word clicks
\* that show and hide it, while the service stays silent
SpecPanel == Init /\ [][NextPanel]_vars

(***************************************************************************)
(* Vocabulary of the properties                                            *)
(***************************************************************************)
\* every index a handler may be called with: the tokens' and one past each end
Positions == -1..Len(tokens)

\* the phrase list without the phrases whose index is in S, order kept
RECURSIVE OthersFrom(_, _, _)
OthersFrom(phr, S, k) ==
  IF k > Len(phr) THEN <<>>
  ELSE (IF k \in S THEN <<>> ELSE <<phr[k]>>) \o OthersFrom(phr, S, k + 1)

Others(phr, S) == OthersFrom(phr, S, 1)

\* the member positions of the phrase with index p, none for null
Members(phr, p) == IF p = 0 THEN {} ELSE Range(phr[p])

SamePhrase(phr, a, b) ==
  getPhraseForIndex(phr, a) # 0 /\ getPhraseForIndex(phr, a) = getPhraseForIndex(phr, b)

\* the indices of the phrases that contain both a and b
Holders(phr, a, b) == {k \in 1..Len(phr) : {a, b} \subseteq Range(phr[k])}

(***************************************************************************)
(* C1  Disjointness: in every state reached by start-picking, word clicks, *)
(* connector clicks and resets, no token position is a member of two       *)
(* phrases of the phrase set.                                              *)
(***************************************************************************)
C1_Disjoint ==
  \A i, j \in 1..Len(phrases) :
    i # j => Range(phrases[i]) \cap Range(phrases[j]) = {}

\* a merge has just extended a phrase while another phrase exists
C1_Witness ==
  /\ event.op = "merge"
  /\ Len(phrases) >= 2
  /\ Len(phrases[Len(phrases)]) >= 3

(***************************************************************************)
(* C2  merge(posA, posB) on two positions of the same phrase is a no-op:   *)
(* the phrase set it leaves is the phrase set it found (same phrases, same *)
(* members with no position duplicated, same order).                       *)
(***************************************************************************)
C2_MergeSamePhraseNoOp ==
  \A a, b \in Positions :
    SamePhrase(phrases, a, b) => handleMerge(phrases, a, b) = phrases

(***************************************************************************)
(* C3  merge(posA, posB) on two positions not in the same phrase leaves    *)
(* exactly one phrase with both; its members are posA, posB and the        *)
(* members of the phrases that held posA or posB; those phrases are gone   *)
(* and every other phrase is as it was, in the same order.                 *)
(***************************************************************************)
C3_MergeUnion ==
  \A a, b \in Positions :
    ~SamePhrase(phrases, a, b) =>
      LET p1 == getPhraseForIndex(phrases, a)
          p2 == getPhraseForIndex(phrases, b)
          r  == handleMerge(phrases, a, b)
      IN  /\ Cardinality(Holders(r, a, b)) = 1
          /\ \A k \in Holders(r, a, b) :
               /\ Range(r[k]) = {a, b} \cup Members(phrases, p1) \cup Members(phrases, p2)
               /\ Others(r, {k}) = Others(phrases, {p1, p2})

\* a connector click has just produced a phrase of four positions or more
C3_Witness ==
  /\ event.op = "merge"
  /\ Len(phrases) >= 1
  /\ Len(phrases[Len(phrases)]) >= 4

(***************************************************************************)
(* C4  toggle on any member position of a phrase removes every member of   *)
(* that phrase from the selection and deletes the phrase; every other      *)
(* phrase and every other selected position is left as it was.             *)
(***************************************************************************)
C4_ToggleDissolvesPhrase ==
  \A i \in Positions :
    getPhraseForIndex(phrases, i) # 0 =>
      LET p == getPhraseForIndex(phrases, i)
          r == handleWordClick(tokens, selectedIndices, phrases, i)
      IN  /\ Range(r.sel) = Range(selectedIndices) \ Range(phrases[p])
          /\ r.phr = Others(phrases, {p})

\* a click has just dissolved a phrase, leaving another phrase and a loose word
C4_Witness ==
  /\ event.op = "click"
  /\ event.b # 0
  /\ Len(phrases) >= 1
  /\ \E x \in Range(selectedIndices) : getPhraseForIndex(phrases, x) = 0

(***************************************************************************)
(* C5  toggle on a word position that is in no phrase flips that position  *)
(* in the selection set and nothing else: the phrase set and every other   *)
(* selected position stay, so toggling it twice gives the selection set    *)
(* and the phrase set back.                                                *)
(***************************************************************************)
C5_ToggleLooseWord ==
  \A i \in Positions :
    (InRange(tokens, i) /\ TokenAt(tokens, i).isWord /\ getPhraseForIndex(phrases, i) = 0) =>
      LET r  == handleWordClick(tokens, selectedIndices, phrases, i)
          r2 == handleWordClick(tokens, r.sel, r.phr, i)
      IN  /\ r.phr = phrases
          /\ Range(r.sel) = IF i \in Range(selectedIndices)
                            THEN Range(selectedIndices) \ {i}
                            ELSE Range(selectedIndices) \cup {i}
          /\ Len(r.sel) = Cardinality(Range(r.sel))
          /\ r2.phr = phrases
          /\ Range(r2.sel) = Range(selectedIndices)

\* a click has just deselected a loose word, other words and a phrase staying
C5_Witness ==
  /\ event.op = "click"
  /\ event.b = 0
  /\ ~Has(selectedIndices, event.a)
  /\ Len(phrases) >= 1
  /\ \E x \in Range(selectedIndices) : getPhraseForIndex(phrases, x) = 0

(***************************************************************************)
(* C6  toggle on a position that is no WORD token, or outside the token    *)
(* sequence, changes neither the selection nor the phrase set; so the      *)
(* selection holds positions of WORD tokens only.                          *)
(***************************************************************************)
C6_ToggleNonWordNoOp ==
  /\ \A i \in Positions :
       (~InRange(tokens, i) \/ ~TokenAt(tokens, i).isWord) =>
         handleWordClick(tokens, selectedIndices, phrases, i)
           = [sel |-> selectedIndices, phr |-> phrases]
  /\ \A x \in Range(selectedIndices) :
       InRange(tokens, x) /\ TokenAt(tokens, x).isWord

\* a click has just selected a word, words being selected on both sides of a
\* number token, which no call can select
C6_Witness ==
  /\ event.op = "click"
  /\ Has(selectedIndices, event.a)
  /\ Len(selectedIndices) >= 2
  /\ Len(phrases) >= 1
  /\ \E i \in Positions :
       /\ InRange(tokens, i) /\ ~TokenAt(tokens, i).isWord
       /\ TokenAt(tokens, i).text = <<"1", "2">>
       /\ \E x, y \in Range(selectedIndices) : x < i /\ i < y

(***************************************************************************)
(* C7  findAdjacentPairs returns exactly the pairs (a, b) of consecutive   *)
(* WORD tokens (tokens that are no words between them ignored) that are    *)
(* both selected and not both members of one phrase; two selected words    *)
(* with an unselected word between them are no pair.                       *)
(***************************************************************************)
WordPositions == {i \in 0..(Len(tokens) - 1) : TokenAt(tokens, i).isWord}

ConsecutiveWords(a, b) ==
  /\ a \in WordPositions /\ b \in WordPositions
  /\ a < b
  /\ ~\E c \in WordPositions : a < c /\ c < b

ExpectedPairs ==
  {pr \in WordPositions \X WordPositions :
     /\ ConsecutiveWords(pr[1], pr[2])
     /\ pr[1] \in Range(selectedIndices) /\ pr[2] \in Range(selectedIndices)
     /\ ~SamePhrase(phrases, pr[1], pr[2])}

C7_AdjacentPairs ==
  LET pairs == findAdjacentPairs(tokens, selectedIndices, phrases)
  IN  /\ Range(pairs) = ExpectedPairs
      /\ Len(pairs) = Cardinality(ExpectedPairs)

\* a pair is reported, next to a phrase whose inner gap is not, while two
\* selected words have an unselected word between them
C7_Witness ==
  /\ Len(findAdjacentPairs(tokens, selectedIndices, phrases)) >= 1
  /\ \E a, b \in WordPositions : ConsecutiveWords(a, b) /\ SamePhrase(phrases, a, b)
  /\ \E a, c, b \in WordPositions :
       /\ a < c /\ c < b
       /\ a \in Range(selectedIndices) /\ b \in Range(selectedIndices)
       /\ c \notin Range(selectedIndices)

(***************************************************************************)
(* C8  Export exclusivity: a selected position that is a member of a       *)
(* phrase adds nothing to the words of the export document, nor to the     *)
(* panel's list of single words: both are what the selected positions in   *)
(* no phrase alone give.                                                   *)
(***************************************************************************)
IsLoose(x) == getPhraseForIndex(phrases, x) = 0

\* the selected positions that are in no phrase, in the selection's order
LooseSelected == SelectSeq(selectedIndices, IsLoose)

C8_ExportExclusive ==
  /\ ExportWords(tokens, selectedIndices, phrases) = ExportWords(tokens, LooseSelected, <<>>)
  /\ getSelectedWords(tokens, selectedIndices, phrases)
       = getSelectedWords(tokens, LooseSelected, <<>>)
  /\ \A x \in Range(selectedIndices) :
       (~IsLoose(x) /\ normalizeWord(TokenAt(tokens, x).text)
                         \in Range(ExportWords(tokens, selectedIndices, phrases)))
         => \E y \in Range(LooseSelected) :
              normalizeWord(TokenAt(tokens, y).text) = normalizeWord(TokenAt(tokens, x).text)

\* an export with a loose word, and a selected phrase member whose word is not exported
C8_Witness ==
  /\ event.op = "export"
  /\ ExportWords(tokens, selectedIndices, phrases) # <<>>
  /\ \E x \in Range(selectedIndices) :
       /\ ~IsLoose(x)
       /\ normalizeWord(TokenAt(tokens, x).text)
            \notin Range(ExportWords(tokens, selectedIndices, phrases))

(***************************************************************************)
(* C9  The words of the export document are exactly the normalized texts   *)
(* (lowercase, letters only) of the selected positions covered by no       *)
(* phrase, each once, in ascending lexicographic order.                    *)
(***************************************************************************)
LowerLetters == <<"a", "b", "c", "d">>

Alpha(c) == CHOOSE i \in 1..Len(LowerLetters) : LowerLetters[i] = c

RECURSIVE LexLess(_, _)
LexLess(s, t) ==
  IF t = <<>> THEN FALSE
  ELSE IF s = <<>> THEN TRUE
  ELSE IF Head(s) = Head(t) THEN LexLess(Tail(s), Tail(t))
  ELSE Alpha(Head(s)) < Alpha(Head(t))

C9_ExportWords ==
  LET words == ExportWords(tokens, selectedIndices, phrases)
  IN  /\ Range(words) = {normalizeWord(TokenAt(tokens, x).text) : x \in Range(LooseSelected)}
      /\ \A k \in 1..Len(words) :
           /\ words[k] # <<>>
           /\ Range(words[k]) \subseteq Range(LowerLetters)
      /\ \A k \in 1..(Len(words) - 1) : LexLess(words[k], words[k + 1])

\* an export of two words from three loose positions, the word selected first
\* not coming first
C9_Witness ==
  /\ event.op = "export"
  /\ Len(ExportWords(tokens, selectedIndices, phrases)) >= 2
  /\ Len(LooseSelected) > Len(ExportWords(tokens, selectedIndices, phrases))
  /\ normalizeWord(TokenAt(tokens, LooseSelected[1]).text)
       # ExportWords(tokens, selectedIndices, phrases)[1]
  /\ \E x \in Range(LooseSelected) :
       TokenAt(tokens, x).text # normalizeWord(TokenAt(tokens, x).text)

(***************************************************************************)
(* C10  The phrases of the export document: one string per phrase of the   *)
(* phrase set, each the raw texts of the phrase's member tokens in         *)
(* ascending position order with one space between them, neither           *)
(* deduplicated nor sorted.                                                *)
(***************************************************************************)
\* the elements of a set of positions in ascending order
RECURSIVE AscSeq(_)
AscSeq(S) ==
  IF S = {} THEN <<>>
  ELSE LET m == CHOOSE x \in S : \A y \in S : x <= y
       IN  <<m>> \o AscSeq(S \ {m})

\* where the i-th text starts in the join of texts, less one
RECURSIVE Offset(_, _)
Offset(texts, i) ==
  IF i = 1 THEN 0 ELSE Offset(texts, i - 1) + Len(texts[i - 1]) + 1

\* s is the texts in their order with exactly one space between neighbours
IsJoin(s, texts) ==
  /\ Len(texts) >= 1
  /\ Len(s) = Offset(texts, Len(texts)) + Len(texts[Len(texts)])
  /\ \A i \in 1..Len(texts) :
       /\ SubSeq(s, Offset(texts, i) + 1, Offset(texts, i) + Len(texts[i])) = texts[i]
       /\ i < Len(texts) => s[Offset(texts, i) + Len(texts[i]) + 1] = " "

RawTexts(positions) == [j \in 1..Len(positions) |-> TokenAt(tokens, positions[j]).text]

C10_Strings ==
  /\ Len(ExportPhrases(tokens, phrases)) = Len(phrases)
  /\ \A k \in 1..Len(phrases) :
       IsJoin(ExportPhrases(tokens, phrases)[k], RawTexts(AscSeq(Range(phrases[k]))))

\* the original wording of the order: creation order, kept across later
\* merges.  A phrase that a step leaves or extends stays before every phrase
\* created after it, and a phrase created by the step comes last.
C10_CreationOrderKept ==
  /\ \A k1, k2 \in 1..Len(phrases) : \A j1, j2 \in 1..Len(phrases') :
       (/\ k1 < k2 /\ j1 # j2
        /\ Range(phrases[k1]) \subseteq Range(phrases'[j1])
        /\ Range(phrases[k2]) \subseteq Range(phrases'[j2])) => j1 < j2
  /\ \A j \in 1..Len(phrases') :
       (\A k \in 1..Len(phrases) : ~(Range(phrases[k]) \subseteq Range(phrases'[j])))
         => j = Len(phrases')

C10_Original == []C10_Strings /\ [][C10_CreationOrderKept]_vars

\* C10 as amended: the strings come in the order of the phrase list, where a
\* merge puts the phrase it creates, extends or unites last and every step
\* keeps the phrases it does not touch in their order.
C10_ListOrder ==
  /\ \A k1, k2 \in 1..Len(phrases) : \A j1, j2 \in 1..Len(phrases') :
       (k1 < k2 /\ phrases[k1] = phrases'[j1] /\ phrases[k2] = phrases'[j2]) => j1 < j2
  /\ \A j \in 1..Len(phrases') :
       (\A k \in 1..Len(phrases) : phrases[k] # phrases'[j]) => j = Len(phrases')

C10_Amended == []C10_Strings /\ [][C10_ListOrder]_vars

\* an export of two phrases, the one listed last lying before the other in the
\* text: a merge extended it after the other was created
C10_Witness ==
  /\ event.op = "export"
  /\ Len(phrases) = 2
  /\ Len(phrases[2]) = 3
  /\ phrases[2][1] < phrases[1][1]

(***************************************************************************)
(* Vocabulary of the claims about the definition cache.                    *)
(***************************************************************************)
\* the state of the queue before a render's handlers have run
Fresh(wm) == [wm |-> wm, req |-> <<>>]

\* fetchMeaning(w1); fetchMeaning(w2) called in a row by code of the render
\* whose wordMeanings is seen
TwoCalls(seen, w1, w2) == fetchMeaning(seen, fetchMeaning(seen, Fresh(seen), w1), w2)

\* the texts of the word tokens of the article
WordTexts == {TokenAt(tokens, i).text : i \in WordPositions}

\* the record of the cache is settled: no longer loading
Terminal(rec) == ~rec.loading

(***************************************************************************)
(* C11  Two calls of fetchMeaning in a row, with words that have the same  *)
(* normalized form and no record yet, send exactly one request: the second *)
(* call finds the record of the first and does nothing.                    *)
(***************************************************************************)
C11_OneRequest ==
  \A w1 \in WordTexts : \A w2 \in WordTexts :
    (normalizeWord(w1) = normalizeWord(w2) /\ ~MapHas(wordMeanings, normalizeWord(w1)))
      => Len(TwoCalls(wordMeanings, w1, w2).req) = 1

\* the normalized word of the token at position i
KeyAt(i) == normalizeWord(TokenAt(tokens, i).text)

\* the effect of a render with the map wm, and of the render that follows,
\* sends requests only for words without a record in the map it renders with
OnlyNew(toks, sel, phr, wm) ==
  LET first  == PanelEffect(toks, sel, phr, wm)
      second == PanelEffect(toks, sel, phr, first.wm)
  IN  /\ \A x \in 1..Len(first.req) : first.req[x] \notin DOMAIN wm
      /\ \A x \in 1..Len(second.req) : second.req[x] \notin DOMAIN first.wm

\* the phrases after a click on the merge button over the token i
MergedAt(i) ==
  LET pairs == findAdjacentPairs(tokens, selectedIndices, phrases)
      pair  == pairs[ConnectorPair(pairs, i)]
  IN  handleMerge(phrases, pair[1], pair[2])

(***************************************************************************)
(* C12  Within one session no request is sent for a normalized word once   *)
(* the cache holds a record for it, loading or settled: whatever is        *)
(* clicked next (a word, which selects, deselects or dissolves, or a merge *)
(* button) and whatever request comes back next, the renders that follow   *)
(* send requests only for words without a record; and no step of a session *)
(* removes a record.                                                       *)
(***************************************************************************)
C12_OnlyNewRequests ==
  mode = "picking" =>
    /\ \A i \in WordPositions :
         OnlyNew(tokens, handleWordClick(tokens, selectedIndices, phrases, i).sel,
                 handleWordClick(tokens, selectedIndices, phrases, i).phr, wordMeanings)
    /\ \A i \in 0..(Len(tokens) - 1) :
         HasConnector(tokens, selectedIndices, phrases, i)
           => OnlyNew(tokens, selectedIndices, MergedAt(i), wordMeanings)
    /\ \A word \in DOMAIN pending : \A n \in 1..NumReplies :
         OnlyNew(tokens, selectedIndices, phrases, Settle(wordMeanings, word, Replies[n]))

C12_RecordsKept ==
  (mode = "picking" /\ mode' = "picking")
    => \A k \in DOMAIN wordMeanings : k \in DOMAIN wordMeanings'

C12_NoSecondRequest == []C12_OnlyNewRequests /\ [][C12_RecordsKept]_vars

\* a click dissolved a phrase, a member that is a single word again has its
\* settled record, and no request is in flight: the click sent none
C12_Witness ==
  /\ event.op = "click" /\ event.b # 0
  /\ pending = EmptyMap
  /\ \E x \in Range(LooseSelected) :
       MapHas(wordMeanings, KeyAt(x)) /\ Terminal(wordMeanings[KeyAt(x)])

(***************************************************************************)
(* C13  Every cache record is created in the loading state and moves       *)
(* exactly once to a terminal state: in every step, a record that appears  *)
(* is loading, a loading record stays or becomes terminal, and a terminal  *)
(* record that is still in the cache after the step is unchanged.          *)
(***************************************************************************)
C13_Step ==
  \A k \in DOMAIN wordMeanings' :
    /\ k \notin DOMAIN wordMeanings => wordMeanings'[k].loading
    /\ (k \in DOMAIN wordMeanings /\ Terminal(wordMeanings[k]))
         => wordMeanings'[k] = wordMeanings[k]

C13_Lifecycle == [][C13_Step]_vars

(***************************************************************************)
(* C14  A reset leaves the cache, the selection, the phrase set and the    *)
(* token sequence empty, whatever requests are in flight; a start that     *)
(* enters the picker leaves the selection, the phrase set and the cache    *)
(* empty.                                                                  *)
(***************************************************************************)
C14_FreshSession ==
  /\ event.op = "reset"
       => /\ wordMeanings = EmptyMap
          /\ selectedIndices = <<>>
          /\ phrases = <<>>
          /\ tokens = <<>>
  /\ (event.op = "start" /\ mode = "picking")
       => /\ wordMeanings = EmptyMap
          /\ selectedIndices = <<>>
          /\ phrases = <<>>

\* a reset with a request in flight
C14_Witness == event.op = "reset" /\ pending # EmptyMap

(***************************************************************************)
(* C15  The response to a request sent before a reset adds no record to    *)
(* the cache of the new session: when, while picking, a request comes back *)
(* for a word the cache has no record of (the record set when the request  *)
(* was sent was cleared by the reset), the cache stays as it is.           *)
(***************************************************************************)
C15_Step ==
  (event'.op = "reply" /\ mode = "picking" /\ ~MapHas(wordMeanings, event'.word))
    => wordMeanings' = wordMeanings

C15_StaleDropped == [][C15_Step]_vars

(***************************************************************************)
(* C16  While picking, every selected position that is in no phrase has a  *)
(* cache record, loading or settled, for the normalized form of its word,  *)
(* in every state the component settles in after an event.                 *)
(***************************************************************************)
C16_SingleWordsHaveRecords ==
  mode = "picking" =>
    \A x \in Range(LooseSelected) : MapHas(wordMeanings, KeyAt(x))

\* the word just clicked became a single word: its record is loading and its
\* request is in flight, with nothing else done by the user
C16_Witness ==
  /\ event.op = "click"
  /\ event.a \in Range(LooseSelected)
  /\ wordMeanings[KeyAt(event.a)].loading
  /\ InFlight(pending, KeyAt(event.a)) = 1

(***************************************************************************)
(* C17  A request coming back for a word changes only the cache entry of   *)
(* that word: the entry becomes the record of the reply, and every other   *)
(* entry, loading or settled, is after the step what it was before it.     *)
(***************************************************************************)
C17_Step ==
  event'.op = "reply" =>
    /\ DOMAIN wordMeanings' = (DOMAIN wordMeanings) \cup {event'.word}
    /\ wordMeanings'[event'.word] = ResultRecord(event'.word, Replies[event'.a])
    /\ \A k \in DOMAIN wordMeanings :
         k # event'.word => wordMeanings'[k] = wordMeanings[k]

C17_OwnEntryOnly == [][C17_Step]_vars

\* a lookup has failed while the lookup for another word is in flight, its
\* record still loading
C17_Witness ==
  /\ event.op = "reply"
  /\ wordMeanings[event.word].error # NoValue
  /\ \E k \in DOMAIN wordMeanings :
       k # event.word /\ wordMeanings[k].loading /\ InFlight(pending, k) = 1

\* the body of the reply is not what the dictionary service documents, an
\* array of entries
Malformed(reply) == reply.body \in {"invalid", "null", "object"}

\* the lookup failed: network error, not-found status or malformed response
Failed(reply) == ~reply.net \/ ~reply.ok \/ Malformed(reply)

(***************************************************************************)
(* C18  When a lookup has failed (network error, not-found response or     *)
(* malformed response) the record of its word is settled with loading      *)
(* false, a non-empty error message and no definitions.                    *)
(***************************************************************************)
C18_FailureRecorded ==
  (event.op = "reply" /\ Failed(Replies[event.a]))
    => /\ ~wordMeanings[event.word].loading
       /\ wordMeanings[event.word].error \notin {NoValue, ""}
       /\ wordMeanings[event.word].definitions = <<>>

\* the text is empty or holds white space only
IsBlank(text) == \A c \in Range(text) : c \in {" ", "\n"}

(***************************************************************************)
(* C19  A start with an empty or white-space-only article text is          *)
(* rejected: the step leaves mode 'input' and leaves the tokens, the       *)
(* selection, the phrases and the definition cache as they were.           *)
(***************************************************************************)
C19_Step ==
  (event'.op = "start" /\ IsBlank(articleText))
    => /\ mode' = "input"
       /\ UNCHANGED <<articleText, tokens, selectedIndices, phrases, wordMeanings>>

C19_BlankStartRejected == [][C19_Step]_vars

\* a start was rejected on a text of white space while the cache, written by
\* a late reply, is not empty
C19_Witness ==
  /\ event.op = "start"
  /\ mode = "input"
  /\ Len(articleText) > 0
  /\ wordMeanings # EmptyMap

\* the normalized words of the article
Keys == {KeyAt(i) : i \in WordPositions}

\* a loading, a failed and a populated record for the word k
SampleRecords(k) ==
  {LoadingRecord(k), ErrorRecord(k), FoundRecord(k, "p1", <<"d1">>)}

\* the caches that hold, for some of the words of the article, one of the
\* sample records each
Caches ==
  UNION {{wm \in [K -> UNION {SampleRecords(k) : k \in K}] :
            \A k \in K : wm[k] \in SampleRecords(k)} : K \in SUBSET Keys}

(***************************************************************************)
(* C20  The words and phrases of the export document depend on the tokens, *)
(* the selection and the phrases only: with any cache in place of the      *)
(* current one (records loading, failed, populated or absent) the document *)
(* is the same and the export button is enabled or not as it is now; the   *)
(* button is enabled whenever something is selected, and an export emits   *)
(* that document.                                                          *)
(***************************************************************************)
C20_ExportIgnoresCache ==
  mode = "picking" =>
    /\ \A wm \in Caches :
         /\ ExportDocument(tokens, selectedIndices, phrases, wm)
              = ExportDocument(tokens, selectedIndices, phrases, wordMeanings)
         /\ ExportEnabled(selectedIndices, wm)
              = ExportEnabled(selectedIndices, wordMeanings)
    /\ Len(selectedIndices) # 0 => ExportEnabled(selectedIndices, wordMeanings)
    /\ event.op = "export"
         => event.doc = ExportDocument(tokens, selectedIndices, phrases, EmptyMap)

\* an export of a single word while one lookup is loading and another failed
C20_Witness ==
  /\ event.op = "export"
  /\ Len(event.doc.words) > 0
  /\ \E k \in DOMAIN wordMeanings : wordMeanings[k].loading
  /\ \E k \in DOMAIN wordMeanings : wordMeanings[k].error # NoValue

(***************************************************************************)
(* C21  The floating panel is rendered exactly when the effective          *)
(* single-word selections together with the phrase display strings are a   *)
(* non-empty list: in every state the panel is on the page if and only if  *)
(* a selected position is in no phrase or there is a phrase.               *)
(***************************************************************************)
\* the panel is on the page: the picking view renders it and it returns an
\* element
PanelOnPage == mode = "picking" /\ PanelShown(tokens, selectedIndices, phrases)

C21_PanelShown ==
  PanelOnPage <=> (Len(LooseSelected) > 0 \/ Len(phrases) > 0)

\* the panel is shown for phrases alone, and a picking view is without it
C21_Witness ==
  /\ PanelOnPage
  /\ Len(LooseSelected) = 0
  /\ Len(phrases) > 0
  /\ event.op = "merge"

(***************************************************************************)
(* C22  tokenize is a round trip: the texts of the tokens it emits,        *)
(* concatenated in emission order, are the input text, for every text; so  *)
(* are the texts of the tokens of a session, whose input is the article.   *)
(***************************************************************************)
TextsOf(toks) == [k \in 1..Len(toks) |-> toks[k].text]

RECURSIVE Concat(_)
Concat(texts) ==
  IF Len(texts) = 0 THEN <<>> ELSE Head(texts) \o Concat(Tail(texts))

C22_RoundTrip ==
  /\ Concat(TextsOf(tokenize(articleText))) = articleText
  /\ mode = "picking" => Concat(TextsOf(tokens)) = articleText

\* a tokenized article with a separator of two characters between two words
C22_Witness ==
  /\ mode = "picking"
  /\ Len(tokens) = 3
  /\ tokens[1].isWord /\ tokens[3].isWord
  /\ Len(tokens[2].text) = 2

(***************************************************************************)
(* C23  Every token tokenize emits has a non-empty text, its index in the  *)
(* emitted sequence as position, and isWord true exactly when its text has *)
(* an ASCII letter; a word click and a merge leave the tokens, and so      *)
(* their positions, as they are.                                           *)
(***************************************************************************)
WellFormedToken(t, k) ==
  /\ Len(t.text) > 0
  /\ t.index = k
  /\ t.isWord <=> (Range(t.text) \cap {"A", "B", "a", "b", "c", "d"} # {})

WellFormed(toks) == \A k \in 1..Len(toks) : WellFormedToken(toks[k], k - 1)

C23_Step == event'.op \in {"click", "merge"} => tokens' = tokens

C23_Tokens ==
  /\ [](WellFormed(tokenize(articleText)) /\ WellFormed(tokens))
  /\ [][C23_Step]_vars

\* after a word click, a token of digits alone among the tokens
C23_Witness ==
  /\ event.op = "click"
  /\ \E k \in 1..Len(tokens) : Range(tokens[k].text) = {"1"}

(***************************************************************************)
(* C24  Every newline of the article is a token of its own: in a session   *)
(* a token whose text has a newline is the text "\n" with isNewline true,  *)
(* so no newline is part of a white space run.                             *)
(***************************************************************************)
C24_NewlineOwnToken ==
  mode = "picking" =>
    \A k \in 1..Len(tokens) :
      "\n" \in Range(tokens[k].text) =>
        tokens[k].text = <<"\n">> /\ tokens[k].isNewline

(***************************************************************************)
(* C25  In every reachable state each phrase is a strictly ascending list  *)
(* of at least 2 token positions (so they are distinct), each of them the  *)
(* position of a word token.                                               *)
(***************************************************************************)
StrictlyAscending(p) == \A k \in 1..(Len(p) - 1) : p[k] < p[k + 1]

C25_PhraseShape ==
  \A k \in 1..Len(phrases) :
    /\ Len(phrases[k]) >= 2
    /\ StrictlyAscending(phrases[k])
    /\ \A j \in 1..Len(phrases[k]) :
         /\ InRange(tokens, phrases[k][j])
         /\ TokenAt(tokens, phrases[k][j]).isWord

\* two phrases have just been united into one of four words
C25_Witness ==
  /\ event.op = "merge"
  /\ Len(phrases) = 1
  /\ Len(phrases[1]) = 4
  /\ getPhraseForIndex(phrases, event.a) = 1

(***************************************************************************)
(* C26  For every pair the adjacency scanner reports, the rendering puts   *)
(* at least one merge button in the gap between the two word tokens, and a *)
(* click on any button of that gap merges exactly that pair; no button is  *)
(* rendered in a gap that is not a reported pair.                          *)
(***************************************************************************)
\* the token positions strictly between the two words of a pair
Gap(pair) == {i \in Positions : pair[1] < i /\ i < pair[2]}

\* the pair a click on the button over the token i merges
MergedByClick(i) ==
  LET pairs == findAdjacentPairs(tokens, selectedIndices, phrases)
  IN  pairs[ConnectorPair(pairs, i)]

\* every reported pair has a button in its gap
C26_EveryPairHasButton ==
  \A k \in 1..Len(findAdjacentPairs(tokens, selectedIndices, phrases)) :
    \E i \in Gap(findAdjacentPairs(tokens, selectedIndices, phrases)[k]) :
      HasConnector(tokens, selectedIndices, phrases, i)

\* every button is in the gap of a reported pair, which is the one it merges
C26_ButtonsMergeTheirPair ==
  \A i \in Positions :
    HasConnector(tokens, selectedIndices, phrases, i) =>
      \E k \in 1..Len(findAdjacentPairs(tokens, selectedIndices, phrases)) :
        LET pair == findAdjacentPairs(tokens, selectedIndices, phrases)[k]
        IN  i \in Gap(pair) /\ MergedByClick(i) = pair

C26_Connectors ==
  mode = "picking" => C26_EveryPairHasButton /\ C26_ButtonsMergeTheirPair

(***************************************************************************)
(* C27  On a successful lookup the record of the word becomes terminal,    *)
(* with loading false, no error and the definitions of the response: of    *)
(* each meaning group, in response order, the first at most 2 non-empty    *)
(* definitions, the whole truncated to at most 3 entries.                  *)
(***************************************************************************)
\* the lookup succeeded: a response with an ok status and an array of entries
Succeeded(reply) == reply.net /\ reply.ok /\ reply.body = "array"

\* the meaning groups of the first entry of a response
Groups(reply) == IF Len(reply.data) = 0 THEN <<>> ELSE reply.data[1].meanings

\* the first at most n entries of a list
Prefix(s, n) == [k \in 1..(IF Len(s) < n THEN Len(s) ELSE n) |-> s[k]]

\* the non-empty definitions of a group, in order
NonEmptyOf(group) ==
  SelectSeq(group.definitions, LAMBDA d : Len(d) > 0)

\* the non-empty ones of the first at most 2 definitions of a group
NonEmptyOfFirstTwo(group) ==
  (IF Len(group.definitions) >= 1 /\ Len(group.definitions[1]) > 0
   THEN <<group.definitions[1]>> ELSE <<>>)
  \o (IF Len(group.definitions) >= 2 /\ Len(group.definitions[2]) > 0
      THEN <<group.definitions[2]>> ELSE <<>>)

\* the record of the word whose request has just come back
SettledRecord == wordMeanings'[event'.word]

\* the reply that has just come back
LastReply == Replies[event'.a]

C27_StepOriginal ==
  event'.op = "reply" /\ Succeeded(LastReply) =>
    /\ ~SettledRecord.loading
    /\ SettledRecord.error = NoValue
    /\ SettledRecord.definitions =
         Prefix(Concat([g \in 1..Len(Groups(LastReply)) |->
                          Prefix(NonEmptyOf(Groups(LastReply)[g]), 2)]), 3)

C27_Original == [][C27_StepOriginal]_vars

\* C27 as amended: of each meaning group the first at most 2 definitions
\* are taken and the empty ones among them are left out
C27_StepAmended ==
  event'.op = "reply" /\ Succeeded(LastReply) =>
    /\ ~SettledRecord.loading
    /\ SettledRecord.error = NoValue
    /\ SettledRecord.definitions =
         Prefix(Concat([g \in 1..Len(Groups(LastReply)) |->
                          NonEmptyOfFirstTwo(Groups(LastReply)[g])]), 3)

C27_Amended == [][C27_StepAmended]_vars

\* a response of three groups, the first with an empty second definition,
\* has settled the record of its word
C27_Witness ==
  /\ event.op = "reply"
  /\ Succeeded(Replies[event.a])
  /\ wordMeanings[event.word].definitions = <<"d1", "d4", "d5">>
  /\ ~wordMeanings[event.word].loading

(***************************************************************************)
(* C28  The panel's drag state machine.  A press outside the content area  *)
(* starts a drag and captures offset = pointer - position; while dragging  *)
(* every pointer move sets position = pointer - captured offset; a release *)
(* ends the drag; a press inside the content area never starts a drag; a   *)
(* pointer move while not dragging leaves the position as it is.  So a     *)
(* drag starts with a press outside the content only, and within a session *)
(* the position changes with a move during a drag only.                    *)
(***************************************************************************)
\* the place of the pointer in the mouse event of the step
PointerOf(e) == [x |-> e.a, y |-> e.b]

C28_Step ==
  /\ event'.op = "press" =>
       /\ panel'.isDragging
       /\ panel'.dragOffset = Minus(PointerOf(event'), panel.position)
       /\ panel'.position = panel.position
  /\ event'.op = "move" /\ panel.isDragging =>
       /\ panel'.position = Minus(PointerOf(event'), panel.dragOffset)
       /\ panel'.dragOffset = panel.dragOffset
       /\ panel'.isDragging
  /\ event'.op = "up" => ~panel'.isDragging
  /\ event'.op = "pressContent" => panel' = panel
  /\ event'.op = "move" /\ ~panel.isDragging => panel'.position = panel.position
  /\ ~panel.isDragging /\ panel'.isDragging => event'.op = "press"
  /\ panel'.position # panel.position => event'.op = "move" /\ panel.isDragging

C28_DragMachine == [][C28_Step]_vars

\* a drag has moved the panel from where it was mounted, the pointer having
\* gripped it away from its corner
C28_Witness ==
  /\ event.op = "move"
  /\ panel.isDragging
  /\ panel.position # PanelMounted.position
  /\ panel.dragOffset.x > 0

(***************************************************************************)
(* C29  Minimize and drag are independent: the minimize button flips the   *)
(* minimized flag and leaves the position, the drag flag and the captured  *)
(* offset as they are; a press, a pointer move and a release leave the     *)
(* minimized flag as it is.                                                *)
(***************************************************************************)
C29_Step ==
  /\ event'.op = "minimize" =>
       panel' = [panel EXCEPT !.isMinimized = ~panel.isMinimized]
  /\ event'.op \in {"press", "pressContent", "move", "up"} =>
       panel'.isMinimized = panel.isMinimized

C29_MinimizeIndependent == [][C29_Step]_vars

\* the panel was minimized in the middle of a drag that had moved it
C29_Witness ==
  /\ event.op = "minimize"
  /\ panel.isMinimized
  /\ panel.isDragging
  /\ panel.position # PanelMounted.position

(***************************************************************************)
(* C30  In every state reached through the UI, where a merge is the click  *)
(* of a button rendered for a pair of the adjacency scanner, every member  *)
(* position of every phrase is in the selection; a merge leaves the        *)
(* selection as it is.                                                     *)
(***************************************************************************)
C30_MembersSelected ==
  \A k \in 1..Len(phrases) :
    \A j \in 1..Len(phrases[k]) : Has(selectedIndices, phrases[k][j])

C30_MergeStep == event'.op = "merge" => selectedIndices' = selectedIndices

C30_PhrasesWithinSelection == []C30_MembersSelected /\ [][C30_MergeStep]_vars

\* a phrase was dissolved by a click on one of its members while another
\* phrase and its selected members stay
C30_Witness ==
  /\ event.op = "click"
  /\ event.b # 0
  /\ Len(phrases) = 1
  /\ Len(selectedIndices) = Len(phrases[1])

(***************************************************************************)
(* C31  In every state reached through the UI each phrase is a contiguous  *)
(* run of the word tokens: a word token that lies between two members of a *)
(* phrase is a member of that phrase.                                      *)
(***************************************************************************)
\* the word positions strictly between two members of the phrase p
Enclosed(p) ==
  {w \in WordPositions :
     \E a \in Range(p) : \E b \in Range(p) : a < w /\ w < b}

C31_PhrasesContiguous ==
  \A k \in 1..Len(phrases) : Enclosed(phrases[k]) \subseteq Range(phrases[k])

\* a merge has made a phrase of three words, which encloses its middle
\* word, while a word of the article is in no phrase
C31_Witness ==
  /\ event.op = "merge"
  /\ \E k \in 1..Len(phrases) :
       /\ Len(phrases[k]) = 3
       /\ Enclosed(phrases[k]) # {}
  /\ \E w \in WordPositions : getPhraseForIndex(phrases, w) = 0

(***************************************************************************)
(* C32  Every record of the definition cache is well formed in every       *)
(* reachable state: its key is its word field, a non-empty string of       *)
(* lowercase ASCII letters; a loading record has no definitions and no     *)
(* error; a record with an error is not loading and has no definitions; no *)
(* record has more than 3 definitions.                                     *)
(***************************************************************************)
WellFormedRecord(k, rec) ==
  /\ rec.word = k
  /\ Len(k) > 0
  /\ Range(k) \subseteq Range(LowerLetters)
  /\ rec.loading => rec.definitions = <<>> /\ rec.error = NoValue
  /\ rec.error # NoValue => ~rec.loading /\ rec.definitions = <<>>
  /\ Len(rec.definitions) <= 3

C32_RecordsWellFormed ==
  \A k \in DOMAIN wordMeanings : WellFormedRecord(k, wordMeanings[k])

\* the cache holds a record of 3 definitions for a word typed with a
\* capital and a failed record for another word
C32_Witness ==
  /\ mode = "picking"
  /\ \E i \in WordPositions :
       /\ TokenAt(tokens, i).text # KeyAt(i)
       /\ MapHas(wordMeanings, KeyAt(i))
       /\ Len(wordMeanings[KeyAt(i)].definitions) = 3
  /\ \E k \in DOMAIN wordMeanings : wordMeanings[k].error # NoValue

(***************************************************************************)
(* C33  When every request sent comes back, with success or with failure,  *)
(* a record that is loading is later not loading any more: it has become   *)
(* terminal, or the cache was cleared by a reset or a new start.  No word  *)
(* shows "Loading..." forever.                                             *)
(***************************************************************************)
\* the cache holds a loading record for the word k
Loading(k) == MapHas(wordMeanings, k) /\ wordMeanings[k].loading

C33_LoadingEnds == \A k \in ArticleKeys : Loading(k) ~> ~Loading(k)

\* the only request for a word has come back and its record is terminal,
\* while the record of another word is still loading
C33_Witness ==
  /\ event.op = "reply"
  /\ mode = "picking"
  /\ MapHas(wordMeanings, event.word)
  /\ ~Loading(event.word)
  /\ InFlight(pending, event.word) = 0
  /\ \E k \in ArticleKeys : Loading(k)

====
